---------------------------- MODULE Spec2Model ----------------------------
(***************************************************************************)
(* A model of yellowbrick/classifier.py: the three classification score    *)
(* visualizers (ClassificationReport, ROCAUC, ClassBalance), the estimator *)
(* they wrap and the state of the plotting library (pyplot) they draw on.  *)
(*                                                                         *)
(* Python values are represented as follows.                               *)
(*   - None, axes and exception names are strings.                         *)
(*   - An attribute that may hold None or a list holds <<>> for None and   *)
(*     <<list>> for a list.                                                *)
(*   - viz.attrs is the set of instance attributes that have been assigned.*)
(*   - A dict is a function from its keys to its values.                   *)
(*   - A target vector y is represented by the set of labels found in it.  *)
(*   - The numbers scikit-learn computes are not evaluated: the value it   *)
(*     computes for measure m and label l is the term <<m, l>>.            *)
(***************************************************************************)
EXTENDS Integers, Sequences, FiniteSets

VARIABLES
    viz,    \* the visualizer object (self)
    est,    \* the wrapped estimator (model)
    plt,    \* matplotlib.pyplot: current axis, what each axis holds, last artists
    ret,    \* what the last call returned
    err,    \* the exception the last call raised, or "none"
    call,   \* the method called last
    args    \* the arguments the constructor was called with

vars == <<viz, est, plt, ret, err, call, args>>

----------------------------------------------------------------------------
(* Bounds of the model *)

NumLabels == 3      \* target labels are 1..NumLabels
MaxClasses == 3     \* longest classes list given to a constructor
MaxColors == 2      \* length of the colors list of a ClassBalance

Labels == 1..NumLabels
Axes == {"ax1", "ax2"}
None == "None"
Kinds == {"ClassificationReport", "ROCAUC", "ClassBalance"}
ModelTypes == {"classifier", "regressor", "clusterer"}
Measures == {"precision", "recall", "f1"}

\* What the model keeps of a target vector y: the set of labels found in it.
LabelSets == (SUBSET Labels) \ {{}}

\* The label sets of the vectors an estimator is fitted on: labels 1..k.
TrainSets == {1..k : k \in 1..NumLabels}

\* The classes lists a caller passes: descending names n, ..., 1 (never the
\* sorted order an estimator produces) for every length up to MaxClasses.
ClassLists == {[i \in 1..n |-> n + 1 - i] : n \in 0..MaxClasses}

----------------------------------------------------------------------------
(* Helpers *)

Min(a, b) == IF a <= b THEN a ELSE b

SetMin(S) == CHOOSE x \in S : \A z \in S : x <= z

SetMax(S) == CHOOSE x \in S : \A z \in S : z <= x

RECURSIVE SortSet(_)
SortSet(S) == IF S = {} THEN <<>> ELSE <<SetMin(S)>> \o SortSet(S \ {SetMin(S)})

Range(s) == {s[i] : i \in DOMAIN s}

\* dict(zip(keys, vals)): zip stops at the shorter argument and a repeated key
\* keeps the value zipped last.
ZipDict(keys, vals) ==
    LET n == Min(Len(keys), Len(vals))
    IN  [k \in {keys[i] : i \in 1..n} |-> vals[SetMax({i \in 1..n : keys[i] = k})]]

----------------------------------------------------------------------------
(* The libraries the visualizers call *)

\* sklearn.metrics.precision_recall_fscore_support(y, y_pred), called with no
\* labels argument: four arrays (precision, recall, fscore, support) with one
\* entry per label found in y or y_pred, in sorted label order.
precision_recall_fscore_support(found) ==
    LET labels == SortSet(found)
    IN  << [i \in 1..Len(labels) |-> <<"precision", labels[i]>>],
           [i \in 1..Len(labels) |-> <<"recall", labels[i]>>],
           [i \in 1..Len(labels) |-> <<"fscore", labels[i]>>],
           [i \in 1..Len(labels) |-> <<"support", labels[i]>>] >>

\* utils.isclassifier(model)
isclassifier(model) == model.type = "classifier"

\* utils.get_model_name(model)
get_model_name(model) == model.type

\* estimator.fit(X, y): classes_ becomes the sorted labels found in y.
EstimatorFit(model, y) == [model EXCEPT !.fitted = TRUE, !.classes_ = SortSet(y)]

\* The estimators a caller can pass: a regressor, a clusterer, a classifier not
\* yet fitted, and a classifier already fitted.
Models ==
    {[type |-> t, fitted |-> FALSE, classes_ |-> <<>>] : t \in ModelTypes}
    \cup {EstimatorFit([type |-> "classifier", fitted |-> FALSE, classes_ |-> <<>>], y) :
              y \in TrainSets}

\* plt with the artist `kind` added to axis a.
AddArtist(p, a, kind) == [p EXCEPT !.axes[a] = @ \cup {kind}]

----------------------------------------------------------------------------
(* Objects *)

NoScores == [kind |-> "unset", raw |-> <<>>, dict |-> [m \in Measures |-> <<>>]]

\* An object of class `kind` before its __init__ has assigned anything.
NewObject(kind) ==
    [kind |-> kind, ok |-> FALSE, attrs |-> {}, baseInit |-> FALSE, ax |-> None,
     name |-> None, classes_ |-> <<>>, colors |-> <<>>, scores |-> NoScores,
     support |-> <<>>, matrix |-> <<>>]

NoModel == [type |-> "none", fitted |-> FALSE, classes_ |-> <<>>]

NoArgs == [kind |-> "none", type |-> "none", ax |-> None, classes |-> <<>>]

\* Visualizer.__init__(ax)
VisualizerInit(self, ax) == [self EXCEPT !.ax = ax, !.attrs = @ \cup {"ax"}]

\* ScoreVisualizer.__init__(model, ax)
ScoreVisualizerInit(self, model, ax) ==
    [VisualizerInit(self, ax) EXCEPT !.name = get_model_name(model),
                                     !.attrs = @ \cup {"estimator", "name"},
                                     !.baseInit = TRUE]

\* A slip: the base initialiser runs first and the type check after it.
ClassificationScoreVisualizerInitLate(self, model, ax) ==
    [obj |-> ScoreVisualizerInit(self, model, ax),
     err |-> IF isclassifier(model) THEN "none" ELSE "YellowbrickTypeError"]

\* ClassificationScoreVisualizer.__init__(model, ax): the object and what was raised.
ClassificationScoreVisualizerInit(self, model, ax) ==
    IF ~isclassifier(model)
    THEN [obj |-> self, err |-> "YellowbrickTypeError"]
    ELSE [obj |-> ScoreVisualizerInit(self, model, ax), err |-> "none"]

\* ClassificationReport.__init__(model, ax, classes)
ClassificationReportInit(self, model, ax, classes) ==
    LET r == ClassificationScoreVisualizerInit(self, model, ax)
    IN  IF r.err # "none" THEN r
        ELSE [r EXCEPT !.obj.attrs = @ \cup {"cmap", "classes_"}, !.obj.classes_ = classes]

\* ROCAUC.__init__(model, ax): colors holds the roc and the diagonal colour.
ROCAUCInit(self, model, ax) ==
    LET r == ClassificationScoreVisualizerInit(self, model, ax)
    IN  IF r.err # "none" THEN r
        ELSE [r EXCEPT !.obj.attrs = @ \cup {"colors"}, !.obj.colors = <<1, 2>>]

\* ClassBalance.__init__(model, ax, classes, colors=colors)
ClassBalanceInit(self, model, ax, classes, colors) ==
    LET r == ClassificationScoreVisualizerInit(self, model, ax)
    IN  IF r.err # "none" THEN r
        ELSE [r EXCEPT !.obj.attrs = @ \cup {"colors", "classes_"},
                       !.obj.colors = colors, !.obj.classes_ = classes]

----------------------------------------------------------------------------
(* Initial state: no visualizer yet; pyplot has two empty axes, one current *)

Init ==
    /\ viz = NewObject("none")
    /\ est = NoModel
    /\ plt \in {[gca |-> a, axes |-> [x \in Axes |-> {}], cells |-> {}, image |-> <<>>,
                 bars |-> <<>>, barColors |-> <<>>, xticks |-> {}] : a \in Axes}
    /\ ret = None
    /\ err = "none"
    /\ call = "none"
    /\ args = NoArgs

\* The constructor call Kind(model, ax=ax, classes=classes, colors=colors).
Construct(kind, model, ax, classes, colors) ==
    /\ viz.kind = "none"
    /\ LET self == NewObject(kind)
           r == CASE kind = "ClassificationReport" ->
                       ClassificationReportInit(self, model, ax, classes)
                  [] kind = "ROCAUC" -> ROCAUCInit(self, model, ax)
                  [] kind = "ClassBalance" ->
                       ClassBalanceInit(self, model, ax, classes, colors)
       IN  /\ viz' = [r.obj EXCEPT !.ok = (r.err = "none")]
           /\ err' = r.err
           /\ ret' = IF r.err = "none" THEN "self" ELSE "raised"
    /\ est' = model
    /\ call' = "__init__"
    /\ args' = [kind |-> kind, type |-> model.type, ax |-> ax, classes |-> classes]
    /\ UNCHANGED plt

----------------------------------------------------------------------------
(* Methods.  Each returns what the call leaves behind: the object, pyplot,  *)
(* the estimator where it changes, the value returned and the exception.    *)

\* `if self.ax is None: self.ax = plt.gca()`
EnsureAx(self, p) == IF self.ax = None THEN [self EXCEPT !.ax = p.gca] ELSE self

Raised(self, p, e) == [obj |-> self, plt |-> p, ret |-> "raised", err |-> e]

Returned(self, p, r) == [obj |-> self, plt |-> p, ret |-> r, err |-> "none"]

\* ScoreVisualizer.fit(X, y): fits the wrapped estimator and returns self.
ScoreVisualizerFit(self, model, y) ==
    [obj |-> self, est |-> EstimatorFit(model, y), ret |-> "self"]

\* A slip: fit takes the estimator's classes whether or not classes were given.
ClassificationReportFitAlways(self, model, y) ==
    LET r == ScoreVisualizerFit(self, model, y)
    IN  [r EXCEPT !.obj.classes_ = <<r.est.classes_>>]

\* ClassificationReport.fit(X, y)
ClassificationReportFit(self, model, y) ==
    LET r == ScoreVisualizerFit(self, model, y)
    IN  IF r.obj.classes_ = <<>>
        THEN [r EXCEPT !.obj.classes_ = <<r.est.classes_>>]
        ELSE r

\* ClassBalance.fit(X, y)
ClassBalanceFit(self, model, y) ==
    LET r == ScoreVisualizerFit(self, model, y)
    IN  IF r.obj.classes_ = <<>>
        THEN [r EXCEPT !.obj.classes_ = <<r.est.classes_>>]
        ELSE r

\* What plt keeps of the data given to imshow: its rows and columns.
Shape(matrix) == IF matrix = <<>> THEN <<0, 0>> ELSE <<Len(matrix), Len(matrix[1])>>

\* The row draw appends for class cls: [precision, recall, f1] of cls.
MatrixRow(scores, cls) == <<scores["precision"][cls], scores["recall"][cls], scores["f1"][cls]>>

\* ClassificationReport.draw(y, y_pred)
ClassificationReportDraw(self, p) ==
    LET s0 == [EnsureAx(self, p) EXCEPT !.matrix = <<>>, !.attrs = @ \cup {"matrix"}]
    IN  IF s0.classes_ = <<>> THEN Raised(s0, p, "TypeError")
        ELSE IF s0.classes_[1] = <<>>
        THEN Returned(s0, AddArtist([p EXCEPT !.cells = {}, !.image = Shape(s0.matrix)],
                                    p.gca, "imshow"), s0.ax)
        ELSE IF "scores" \notin s0.attrs THEN Raised(s0, p, "AttributeError")
        ELSE IF s0.scores.kind # "dict" THEN Raised(s0, p, "TypeError")
        ELSE
        LET cls == s0.classes_[1]
            d == s0.scores.dict
            missing == {i \in 1..Len(cls) : \E m \in Measures : cls[i] \notin DOMAIN d[m]}
            rows == IF missing = {} THEN Len(cls) ELSE SetMin(missing) - 1
            s1 == [s0 EXCEPT !.matrix = [i \in 1..rows |-> MatrixRow(d, cls[i])]]
            \* column runs over range(len(matrix) + 1), row over range(len(classes_));
            \* matrix[row][column] exists for column < len(matrix[row])
            cols == 0..Len(s1.matrix)
            good == {c \in cols : c < Len(s1.matrix[1])}
            cells == {<<c, r>> : c \in good, r \in 0..(Len(cls) - 1)}
            p1 == AddArtist([p EXCEPT !.cells = cells], s1.ax, "text")
        IN  IF missing # {} THEN Raised(s1, p, "KeyError")
            ELSE IF good # cols THEN Raised(s1, p1, "IndexError")
            ELSE Returned(s1, AddArtist([p1 EXCEPT !.image = Shape(s1.matrix)],
                                        p1.gca, "imshow"), s1.ax)

\* ClassificationReport.score(X, y), `found` being the labels in y and in what
\* predict(X) gave.  Python 3's
\* map is lazy (lazy = TRUE): the lambda then first runs inside the last dict().
ClassificationReportScore(self, p, found, lazy) ==
    LET raw == precision_recall_fscore_support(found)
        s0 == [self EXCEPT !.attrs = @ \cup {"scores"}]
        keys == <<"precision", "recall", "f1">>
    IN  IF s0.classes_ = <<>>
        THEN Raised([s0 EXCEPT !.scores = IF lazy THEN [NoScores EXCEPT !.kind = "map"]
                                          ELSE [NoScores EXCEPT !.kind = "tuple", !.raw = raw]],
                    p, "TypeError")
        ELSE ClassificationReportDraw(
                [s0 EXCEPT !.scores =
                    [kind |-> "dict", raw |-> <<>>,
                     dict |-> [m \in Measures |->
                        ZipDict(s0.classes_[1],
                                raw[CHOOSE i \in 1..Len(keys) : keys[i] = m])]]], p)

\* ROCAUC.draw(y, y_pred)
ROCAUCDraw(self, p) ==
    LET s0 == EnsureAx(self, p)
    IN  IF "fpr" \notin s0.attrs THEN Raised(s0, p, "AttributeError")
        ELSE Returned(s0, AddArtist(AddArtist(p, p.gca, "roc"), p.gca, "diagonal"), s0.ax)

\* ROCAUC.score(X, y): the curve roc_curve and auc compute is not represented,
\* only that fpr, tpr, thresholds and roc_auc are assigned.
ROCAUCScore(self, p) ==
    ROCAUCDraw([self EXCEPT !.attrs = @ \cup {"fpr", "tpr", "thresholds", "roc_auc"}], p)

\* ClassBalance.draw()
ClassBalanceDraw(self, p) ==
    LET s0 == EnsureAx(self, p)
    IN  IF s0.classes_ = <<>> THEN Raised(s0, p, "TypeError")
        ELSE IF "support" \notin s0.attrs THEN Raised(s0, p, "AttributeError")
        ELSE LET colors == SubSeq(s0.colors, 1, Min(Len(s0.colors), Len(s0.classes_[1])))
             IN  Returned(s0, AddArtist([p EXCEPT !.bars = s0.support, !.barColors = colors],
                                        p.gca, "bar"), s0.ax)

\* ClassBalance.score(X, y)
ClassBalanceScore(self, p, found) ==
    LET raw == precision_recall_fscore_support(found)
        s0 == [self EXCEPT !.attrs = @ \cup {"scores"},
                           !.scores = [NoScores EXCEPT !.kind = "tuple", !.raw = raw]]
    IN  IF s0.classes_ = <<>> THEN Raised(s0, p, "TypeError")
        ELSE ClassBalanceDraw([s0 EXCEPT !.attrs = @ \cup {"support"},
                                         !.support = ZipDict(s0.classes_[1], raw[Len(raw)])], p)

\* ClassificationReport.finalize(): title, colorbar, ticks and axis labels, all
\* set through pyplot on the current axis (decorations are not kept in plt);
\* colorbar needs an image on that axis, len() needs a classes list.
ClassificationReportFinalize(self, p) ==
    IF "imshow" \notin p.axes[p.gca] THEN Raised(self, p, "RuntimeError")
    ELSE IF self.classes_ = <<>> THEN Raised(self, p, "TypeError")
    ELSE Returned(self, p, self.ax)

\* ClassificationReport.poof()
ClassificationReportPoof(self, p) ==
    IF self.ax = None THEN Returned(self, p, None)
    ELSE ClassificationReportFinalize(self, p)

\* ROCAUC.poof(): title, legend and limits are set on the current axis.
ROCAUCPoof(self, p) ==
    IF self.ax = None THEN Returned(self, p, None)
    ELSE Returned(self, p, self.ax)

\* ClassBalance.poof(): one tick per entry of support, labelled with its key.
ClassBalancePoof(self, p) ==
    IF self.ax = None THEN Returned(self, p, None)
    ELSE IF "support" \notin self.attrs THEN Raised(self, p, "AttributeError")
    ELSE LET p1 == [p EXCEPT !.xticks = DOMAIN self.support]
         IN  IF DOMAIN self.support = {} THEN Raised(self, p1, "ValueError")
             ELSE Returned(self, p1, self.ax)

----------------------------------------------------------------------------
(* Actions: the calls a user makes on the visualizer, and on pyplot *)

Apply(r) ==
    /\ viz' = r.obj
    /\ plt' = r.plt
    /\ ret' = r.ret
    /\ err' = r.err

\* visualizer.fit(X, y)
Fit(y) ==
    /\ viz.ok
    /\ LET r == CASE viz.kind = "ClassificationReport" -> ClassificationReportFit(viz, est, y)
                  [] viz.kind = "ClassBalance" -> ClassBalanceFit(viz, est, y)
                  [] viz.kind = "ROCAUC" -> ScoreVisualizerFit(viz, est, y)
       IN  /\ viz' = r.obj
           /\ est' = r.est
           /\ ret' = r.ret
    /\ err' = "none"
    /\ call' = "fit"
    /\ UNCHANGED <<plt, args>>

\* visualizer.score(X, y) on an estimator that was never fitted: predict raises.
ScoreNotFitted ==
    /\ viz.ok
    /\ ~est.fitted
    /\ ret' = "raised"
    /\ err' = "NotFittedError"
    /\ call' = "score"
    /\ UNCHANGED <<viz, est, plt, args>>

\* visualizer.score(X, y), `found` being the labels in y and in the fitted
\* estimator's predictions for X, which are among its classes_.
Score(found, lazy) ==
    /\ viz.ok
    /\ est.fitted
    /\ found \cap Range(est.classes_) # {}
    /\ Apply(CASE viz.kind = "ClassificationReport" ->
                    ClassificationReportScore(viz, plt, found, lazy)
               [] viz.kind = "ClassBalance" -> ClassBalanceScore(viz, plt, found)
               [] viz.kind = "ROCAUC" -> ROCAUCScore(viz, plt))
    /\ call' = "score"
    /\ UNCHANGED <<est, args>>

\* visualizer.draw(...) called directly.
Draw ==
    /\ viz.ok
    /\ Apply(CASE viz.kind = "ClassificationReport" -> ClassificationReportDraw(viz, plt)
               [] viz.kind = "ClassBalance" -> ClassBalanceDraw(viz, plt)
               [] viz.kind = "ROCAUC" -> ROCAUCDraw(viz, plt))
    /\ call' = "draw"
    /\ UNCHANGED <<est, args>>

\* visualizer.poof()
Poof ==
    /\ viz.ok
    /\ Apply(CASE viz.kind = "ClassificationReport" -> ClassificationReportPoof(viz, plt)
               [] viz.kind = "ClassBalance" -> ClassBalancePoof(viz, plt)
               [] viz.kind = "ROCAUC" -> ROCAUCPoof(viz, plt))
    /\ call' = "poof"
    /\ UNCHANGED <<est, args>>

\* The caller makes another axis pyplot's current one (plt.sca, plt.figure, ...).
SetCurrentAxis(a) ==
    /\ a # plt.gca
    /\ plt' = [plt EXCEPT !.gca = a]
    /\ UNCHANGED <<viz, est, ret, err, call, args>>

\* Whether map is lazy shows only where the lambda raises: classes_ is None.
LazyChoices ==
    IF viz.kind = "ClassificationReport" /\ viz.classes_ = <<>> THEN BOOLEAN ELSE {FALSE}

OptClasses == {<<>>} \cup {<<c>> : c \in ClassLists}

\* The colors list of a ClassBalance: colours 1..MaxColors.
Palette == [i \in 1..MaxColors |-> i]

Next ==
    \/ \E kind \in Kinds, model \in Models, ax \in {None, "ax1"}, classes \in OptClasses :
          /\ kind = "ROCAUC" => classes = <<>>
          /\ Construct(kind, model, ax, classes, Palette)
    \/ \E y \in TrainSets : Fit(y)
    \/ ScoreNotFitted
    \/ \E found \in LabelSets : \E lazy \in LazyChoices : Score(found, lazy)
    \/ Draw
    \/ Poof
    \/ \E a \in Axes : SetCurrentAxis(a)

Spec == Init /\ [][Next]_vars

----------------------------------------------------------------------------
(* Properties *)

PerClass == {"ClassificationReport", "ClassBalance"}

\* The classes list of the visualizer, where it has one.
Classes == viz.classes_[1]

\* C1: a constructor called with a model that is not a classifier raises
\* YellowbrickTypeError before the base initialiser has run and before any
\* attribute is assigned; called with a classifier it raises nothing and the
\* base initialiser has run.
C1_NonClassifierRejected ==
    args.kind # "none" =>
        /\ args.type # "classifier" =>
              /\ err = "YellowbrickTypeError"
              /\ ~viz.ok
              /\ ~viz.baseInit
              /\ viz.attrs = {}
        /\ args.type = "classifier" =>
              /\ viz.ok
              /\ viz.baseInit
              /\ {"ax", "estimator", "name"} \subseteq viz.attrs
              /\ call = "__init__" => err = "none" /\ ret = "self"

\* A ClassBalance was constructed around a regressor, and the call raised.
C1_Witness ==
    /\ args.kind = "ClassBalance"
    /\ args.type = "regressor"
    /\ call = "__init__"
    /\ err = "YellowbrickTypeError"

\* C2: every artist draw adds goes to the axis given to the constructor, and
\* that axis is what score and draw return.
C2_PlotsOnGivenAx ==
    (viz.ok /\ args.ax # None) =>
        /\ \A a \in Axes : plt.axes[a] # {} => a = args.ax
        /\ (call \in {"score", "draw"} /\ err = "none") => ret = args.ax

\* C3: score on a ClassificationReport or ClassBalance whose estimator came
\* fitted and whose fit was never called (classes_ is still None) raises
\* nothing and leaves the per-class scores set.
C3_ScoreWithoutFit ==
    (viz.ok /\ viz.kind \in PerClass /\ call = "score" /\ est.fitted
        /\ args.classes = <<>> /\ viz.classes_ = <<>>) =>
        /\ err = "none"
        /\ viz.kind = "ClassificationReport" => viz.scores.kind = "dict"
        /\ viz.kind = "ClassBalance" => "support" \in viz.attrs

\* C4: in ClassificationReport and ClassBalance a classes list given to the
\* constructor is classes_ after every step; a fit step returns self, sets
\* classes_ to the fitted estimator's classes_ if classes_ was None and leaves
\* classes_ as it was otherwise.
C4_FitSelectsClassesOnlyWhenNone ==
    [][(viz'.ok /\ viz'.kind \in PerClass) =>
            /\ args'.classes # <<>> => viz'.classes_ = args'.classes
            /\ call' = "fit" =>
                  /\ ret' = "self"
                  /\ viz.classes_ = <<>> => viz'.classes_ = <<est'.classes_>>
                  /\ viz.classes_ # <<>> => viz'.classes_ = viz.classes_]_vars

\* fit has just taken the classes of the estimator it fitted, on a visualizer
\* that had scored before.
C4_Witness ==
    /\ viz.kind = "ClassBalance"
    /\ call = "fit"
    /\ ret = "self"
    /\ args.classes = <<>>
    /\ viz.classes_ = <<est.classes_>>
    /\ "scores" \in viz.attrs

\* The label whose value scikit-learn computed v is.
LabelOf(v) == v[2]

\* C5: after ClassificationReport.score, scores has the keys precision, recall
\* and f1, and each of the three has one entry for every class of classes_;
\* where the classes are the estimator's labels, the entry of a class is the
\* value computed for that label.
C5_ScoresCoverClasses ==
    (viz.kind = "ClassificationReport" /\ viz.scores.kind = "dict" /\ viz.classes_ # <<>>) =>
        /\ DOMAIN viz.scores.dict = Measures
        /\ \A m \in Measures :
              /\ DOMAIN viz.scores.dict[m] = Range(Classes)
              /\ args.classes = <<>> =>
                    \A c \in DOMAIN viz.scores.dict[m] : LabelOf(viz.scores.dict[m][c]) = c

\* C6: once scores are set, the matrix draw built has one row per class of
\* classes_, in order, each row the [precision, recall, f1] of its class.
C6_MatrixRowPerClass ==
    (viz.kind = "ClassificationReport" /\ viz.scores.kind = "dict" /\ viz.classes_ # <<>>
        /\ "matrix" \in viz.attrs /\ call \in {"score", "draw"}) =>
        /\ Len(viz.matrix) = Len(Classes)
        /\ \A i \in 1..Len(viz.matrix) :
              /\ Len(viz.matrix[i]) = Cardinality(Measures)
              /\ viz.matrix[i] = MatrixRow(viz.scores.dict, Classes[i])

\* C7: after ClassBalance.score, support has one entry per class of classes_
\* (the count of that label, where the classes are the estimator's labels),
\* draw has rendered one bar per class with at most len(classes_) colours from
\* the start of colors, and the ticks poof sets are the classes.
C7_SupportEntryPerClass ==
    (viz.kind = "ClassBalance" /\ "support" \in viz.attrs /\ call \in {"score", "poof"}) =>
        /\ DOMAIN viz.support = Range(Classes)
        /\ args.classes = <<>> => \A c \in DOMAIN viz.support : LabelOf(viz.support[c]) = c
        /\ DOMAIN plt.bars = Range(Classes)
        /\ Len(plt.barColors) <= Len(Classes)
        /\ plt.barColors = SubSeq(viz.colors, 1, Len(plt.barColors))
        /\ (call = "poof" /\ err = "none") => plt.xticks = Range(Classes)

=============================================================================
